---- MODULE Spec2Model ----
(***************************************************************************)
(* Model of compute_sales.py: load_json_file, compute_total_sales, main.    *)
(*                                                                         *)
(* Python values are tagged records of one shape, so that values of        *)
(* different Python types can be compared.  Numbers are integers (JSON     *)
(* integers; the float accumulation of line 92 is exact on them).  A bool   *)
(* carries its int value in n, as Python's bool is a subclass of int.      *)
(***************************************************************************)
EXTENDS Integers, Sequences, FiniteSets, TLC

VARIABLES pc, argc, price_catalogue, sales_record, price_dict, idx,
          total_cost, errors, output, console_report, result_file,
          exit_status, uncaught

vars == <<pc, argc, price_catalogue, sales_record, price_dict, idx,
          total_cost, errors, output, console_report, result_file,
          exit_status, uncaught>>

\* ---------------------------------------------------------------- bounds
MaxCat == 2
MaxSales == 2

\* ---------------------------------------------------------- Python values
None == [tag |-> "none", n |-> 0, s |-> ""]
Str(x) == [tag |-> "str", n |-> 0, s |-> x]
Num(k) == [tag |-> "num", n |-> k, s |-> ""]
Bool(b) == [tag |-> "bool", n |-> IF b THEN 1 ELSE 0, s |-> ""]

\* isinstance(v, (int, float)): bool is a subclass of int
IsInstanceIntFloat(v) == v.tag \in {"num", "bool"}

\* ------------------------------------------------------- input domains
Entry(t, p) == [title |-> t, price |-> p]
CatalogueEntries == {Entry("A", 2), Entry("A", 3), Entry("A", -1), Entry("B", 2)}

\* a row of the sales array: a JSON object, whose missing keys read as None
\* through dict.get, or any other JSON value
Sale(p, q) == [isdict |-> TRUE, Product |-> p, Quantity |-> q]
NotAnObject == [isdict |-> FALSE, Product |-> None, Quantity |-> None]
SaleRows == {Sale(Str("A"), Num(2)), Sale(Str("A"), Bool(TRUE)),
             Sale(Str("A"), Num(-1)), Sale(Str("A"), Str("two")),
             Sale(Str("A"), None), Sale(Str("B"), Num(3)),
             Sale(Str("C"), Num(2)), Sale(Str("C"), Num(-1)),
             Sale(Str("C"), None), Sale(None, Num(2)), NotAnObject}

SeqsUpTo(S, k) == UNION {[1..m -> S] : m \in 0..k}

FileKinds == {"missing", "unreadable", "bad_utf8", "bad_json", "not_list", "list"}
CatalogueFiles == [kind : FileKinds \ {"list"}, data : {<<>>}]
                    \cup [kind : {"list"}, data : SeqsUpTo(CatalogueEntries, MaxCat)]
SalesFiles == [kind : FileKinds \ {"list"}, data : {<<>>}]
                \cup [kind : {"list"}, data : SeqsUpTo(SaleRows, MaxSales)]

\* --------------------------------------------------------- load_json_file
NoException == "NoException"

\* the exception open()/json.load() raise for each kind of file
RaisedBy(kind) ==
    CASE kind = "missing" -> "FileNotFoundError"
      [] kind = "unreadable" -> "PermissionError"
      [] kind = "bad_utf8" -> "UnicodeDecodeError"
      [] kind = "bad_json" -> "JSONDecodeError"
      [] OTHER -> NoException

\* Python's exception class hierarchy, child to parent
ParentClass(c) ==
    CASE c = "FileNotFoundError" -> "OSError"
      [] c = "PermissionError" -> "OSError"
      [] c = "OSError" -> "Exception"
      [] c = "JSONDecodeError" -> "ValueError"
      [] c = "UnicodeDecodeError" -> "UnicodeError"
      [] c = "UnicodeError" -> "ValueError"
      [] c = "ValueError" -> "Exception"
      [] OTHER -> "BaseException"

RECURSIVE IsSubclass(_, _)
IsSubclass(c, d) ==
    IF c = d THEN TRUE
    ELSE IF c \in {"BaseException", NoException} THEN FALSE
    ELSE IsSubclass(ParentClass(c), d)

\* the except clauses of load_json_file, in order
ExceptClauses == <<"FileNotFoundError", "JSONDecodeError", "OSError">>

Caught(exc) == \E k \in 1..Len(ExceptClauses) : IsSubclass(exc, ExceptClauses[k])

\* the diagnostic printed by the first matching clause
Diagnostic(exc, path) ==
    LET k == CHOOSE j \in 1..Len(ExceptClauses) :
                 /\ IsSubclass(exc, ExceptClauses[j])
                 /\ \A i \in 1..(j - 1) : ~IsSubclass(exc, ExceptClauses[i])
    IN [text |-> CASE k = 1 -> "no se encontro"
                   [] k = 2 -> "formato JSON invalido"
                   [] OTHER -> "Error inesperado al leer",
        path |-> path]

NoneLoaded == [isnone |-> TRUE, data |-> <<>>]
Loaded(d) == [isnone |-> FALSE, data |-> d]

\* result of load_json_file: the value returned, what was printed, and the
\* exception that left the function (NoException when it returned)
load_json_file(file, path) ==
    LET exc == RaisedBy(file.kind) IN
    IF exc = NoException
    THEN IF file.kind = "list"
         THEN [value |-> Loaded(file.data), printed |-> <<>>, raised |-> NoException]
         ELSE [value |-> NoneLoaded,
               printed |-> <<[text |-> "no es un JSON valida", path |-> path]>>,
               raised |-> NoException]
    ELSE IF Caught(exc)
         THEN [value |-> NoneLoaded, printed |-> <<Diagnostic(exc, path)>>,
               raised |-> NoException]
         ELSE [value |-> NoneLoaded, printed |-> <<>>, raised |-> exc]

\* ----------------------------------------------------- compute_total_sales
EmptyDict == [t \in {} |-> 0]

\* mutant: the first entry of a title wins
RECURSIVE BuildPriceDictFirstWins(_)
BuildPriceDictFirstWins(cat) ==
    IF cat = <<>> THEN EmptyDict
    ELSE LET d == BuildPriceDictFirstWins(SubSeq(cat, 1, Len(cat) - 1))
             item == cat[Len(cat)]
         IN [t \in DOMAIN d \cup {item.title} |->
                IF t \in DOMAIN d THEN d[t] ELSE item.price]

\* {item["title"]: item["price"] for item in price_catalogue}
RECURSIVE BuildPriceDict(_)
BuildPriceDict(cat) ==
    IF cat = <<>> THEN EmptyDict
    ELSE LET d == BuildPriceDict(SubSeq(cat, 1, Len(cat) - 1))
             item == cat[Len(cat)]
         IN [t \in DOMAIN d \cup {item.title} |->
                IF t = item.title THEN item.price ELSE d[t]]

\* product not in price_dict (the catalogue keys are strings)
NotInPriceDict(product, d) == ~(product.tag = "str" /\ product.s \in DOMAIN d)

\* product is None or quantity is None
MissingField(product, quantity) == product = None \/ quantity = None

\* mutant: the sign of the quantity is not checked
InvalidQuantityIgnoresSign(quantity) == ~IsInstanceIntFloat(quantity)

\* not isinstance(quantity, (int, float)) or quantity < 0
InvalidQuantity(quantity) == ~IsInstanceIntFloat(quantity) \/ quantity.n < 0

\* the three f-strings appended to errors: the text and the values it holds
ErrInvalidRecord(sale) ==
    [text |-> "Registro invalido en ventas", product |-> sale.Product,
     quantity |-> sale.Quantity]
ErrNotFound(product) ==
    [text |-> "no encontrado en el catalogo", product |-> product, quantity |-> None]
ErrQuantity(quantity, product) ==
    [text |-> "Cantidad invalido para", product |-> product, quantity |-> quantity]

\* mutant: the price is added without the quantity
ProcessSaleIgnoresQuantity(d, acc, sale) ==
    IF ~sale.isdict
    THEN [acc EXCEPT !.raised = "AttributeError"]
    ELSE LET product == sale.Product
             quantity == sale.Quantity
         IN IF MissingField(product, quantity)
            THEN [acc EXCEPT !.errors = Append(@, ErrInvalidRecord(sale))]
            ELSE IF NotInPriceDict(product, d)
            THEN [acc EXCEPT !.errors = Append(@, ErrNotFound(product))]
            ELSE IF InvalidQuantity(quantity)
            THEN [acc EXCEPT !.errors = Append(@, ErrQuantity(quantity, product))]
            ELSE [acc EXCEPT !.total = @ + d[product.s]]

\* mutant: an unknown product is skipped without an error
ProcessSaleSilentNotFound(d, acc, sale) ==
    IF ~sale.isdict
    THEN [acc EXCEPT !.raised = "AttributeError"]
    ELSE LET product == sale.Product
             quantity == sale.Quantity
         IN IF MissingField(product, quantity)
            THEN [acc EXCEPT !.errors = Append(@, ErrInvalidRecord(sale))]
            ELSE IF NotInPriceDict(product, d)
            THEN acc
            ELSE IF InvalidQuantity(quantity)
            THEN [acc EXCEPT !.errors = Append(@, ErrQuantity(quantity, product))]
            ELSE [acc EXCEPT !.total = @ + d[product.s] * quantity.n]

\* mutant: the quantity is checked before the catalogue lookup
ProcessSaleQuantityFirst(d, acc, sale) ==
    IF ~sale.isdict
    THEN [acc EXCEPT !.raised = "AttributeError"]
    ELSE LET product == sale.Product
             quantity == sale.Quantity
         IN IF MissingField(product, quantity)
            THEN [acc EXCEPT !.errors = Append(@, ErrInvalidRecord(sale))]
            ELSE IF InvalidQuantity(quantity)
            THEN [acc EXCEPT !.errors = Append(@, ErrQuantity(quantity, product))]
            ELSE IF NotInPriceDict(product, d)
            THEN [acc EXCEPT !.errors = Append(@, ErrNotFound(product))]
            ELSE [acc EXCEPT !.total = @ + d[product.s] * quantity.n]

\* one iteration of the for loop over sales_record, on the accumulator
\* acc = [total, errors, raised]
ProcessSale(d, acc, sale) ==
    IF ~sale.isdict
    THEN [acc EXCEPT !.raised = "AttributeError"]
    ELSE LET product == sale.Product
             quantity == sale.Quantity
         IN IF MissingField(product, quantity)
            THEN [acc EXCEPT !.errors = Append(@, ErrInvalidRecord(sale))]
            ELSE IF NotInPriceDict(product, d)
            THEN [acc EXCEPT !.errors = Append(@, ErrNotFound(product))]
            ELSE IF InvalidQuantity(quantity)
            THEN [acc EXCEPT !.errors = Append(@, ErrQuantity(quantity, product))]
            ELSE [acc EXCEPT !.total = @ + d[product.s] * quantity.n]

\* the whole function: the loop stops at the first row that raises
RECURSIVE RunLoop(_, _, _)
RunLoop(d, acc, sales) ==
    IF sales = <<>> \/ acc.raised # NoException THEN acc
    ELSE RunLoop(d, ProcessSale(d, acc, Head(sales)), Tail(sales))

compute_total_sales(cat, sales) ==
    RunLoop(BuildPriceDict(cat),
            [total |-> 0, errors |-> <<>>, raised |-> NoException], sales)

\* ------------------------------------------------------------------- main
\* len(sys.argv): the program name and the arguments given
ArgCounts == {2, 3, 4}

\* f"{total_cost:.2f}" on a whole number: sign, integer digits, two zeros
Format2f(x) ==
    [negative |-> x < 0, units |-> IF x < 0 THEN -x ELSE x, hundredths |-> "00"]

\* result_message followed by the error lines (the elapsed time, which
\* differs from run to run, is left out)
NoReport == [written |-> FALSE, total |-> Format2f(0), lines |-> <<>>]
ReportOf(total, errs) == [written |-> TRUE, total |-> Format2f(total), lines |-> errs]

Line(text, path) == [text |-> text, path |-> path]

Init ==
    /\ pc = "args"
    /\ argc = 0
    /\ price_catalogue = NoneLoaded
    /\ sales_record = NoneLoaded
    /\ price_dict = EmptyDict
    /\ idx = 0
    /\ total_cost = 0
    /\ errors = <<>>
    /\ output = <<>>
    /\ console_report = NoReport
    /\ result_file = NoReport
    /\ exit_status = 0
    /\ uncaught = NoException

\* sys.exit(1) after a printed message
ExitOne(printed) ==
    /\ output' = output \o printed
    /\ pc' = "exited"
    /\ exit_status' = 1
    /\ UNCHANGED uncaught

\* an exception nobody catches: the interpreter prints the traceback and
\* the process ends with status 1
Traceback(exc) ==
    /\ uncaught' = exc
    /\ pc' = "exited"
    /\ exit_status' = 1
    /\ UNCHANGED output

\* lines 98-103
CheckArgs ==
    /\ pc = "args"
    /\ \E n \in ArgCounts :
          /\ argc' = n
          /\ IF n # 3
             THEN ExitOne(<<Line("Usa: python compute_sales.py precios.json ventas.csv", "")>>)
             ELSE /\ pc' = "load_catalogue"
                  /\ UNCHANGED <<output, exit_status, uncaught>>
    /\ UNCHANGED <<price_catalogue, sales_record, price_dict, idx, total_cost,
                   errors, console_report, result_file>>

\* line 104
LoadCatalogue ==
    /\ pc = "load_catalogue"
    /\ \E file \in CatalogueFiles :
          LET r == load_json_file(file, "argv1") IN
          IF r.raised # NoException
          THEN Traceback(r.raised) /\ UNCHANGED price_catalogue
          ELSE /\ price_catalogue' = r.value
               /\ output' = output \o r.printed
               /\ pc' = "load_sales"
               /\ UNCHANGED <<exit_status, uncaught>>
    /\ UNCHANGED <<argc, sales_record, price_dict, idx, total_cost, errors,
                   console_report, result_file>>

\* line 105
LoadSales ==
    /\ pc = "load_sales"
    /\ \E file \in SalesFiles :
          LET r == load_json_file(file, "argv2") IN
          IF r.raised # NoException
          THEN Traceback(r.raised) /\ UNCHANGED sales_record
          ELSE /\ sales_record' = r.value
               /\ output' = output \o r.printed
               /\ pc' = "check"
               /\ UNCHANGED <<exit_status, uncaught>>
    /\ UNCHANGED <<argc, price_catalogue, price_dict, idx, total_cost, errors,
                   console_report, result_file>>

\* not sales_record: None and the empty list are both falsy
Falsy(loaded) == loaded.isnone \/ loaded.data = <<>>

\* price_catalogue is None or not sales_record
LoadFailed(cat, sales) == cat.isnone \/ Falsy(sales)

\* lines 106-108
CheckLoaded ==
    /\ pc = "check"
    /\ IF LoadFailed(price_catalogue, sales_record)
       THEN ExitOne(<<Line("No se pudieron cargar los archivos correctamente", "")>>)
       ELSE /\ pc' = "compute"
            /\ UNCHANGED <<output, exit_status, uncaught>>
    /\ UNCHANGED <<argc, price_catalogue, sales_record, price_dict, idx,
                   total_cost, errors, console_report, result_file>>

\* line 109 entering compute_total_sales, lines 76-78
ComputeEnter ==
    /\ pc = "compute"
    /\ total_cost' = 0
    /\ errors' = <<>>
    /\ price_dict' = BuildPriceDict(price_catalogue.data)
    /\ idx' = 0
    /\ pc' = "loop"
    /\ UNCHANGED <<argc, price_catalogue, sales_record, output, console_report,
                   result_file, exit_status, uncaught>>

\* lines 79-92, one sales record
LoopStep ==
    /\ pc = "loop"
    /\ idx < Len(sales_record.data)
    /\ LET acc == ProcessSale(price_dict,
                              [total |-> total_cost, errors |-> errors,
                               raised |-> NoException],
                              sales_record.data[idx + 1])
       IN IF acc.raised # NoException
          THEN Traceback(acc.raised) /\ UNCHANGED <<total_cost, errors, idx>>
          ELSE /\ total_cost' = acc.total
               /\ errors' = acc.errors
               /\ idx' = idx + 1
               /\ UNCHANGED <<pc, output, exit_status, uncaught>>
    /\ UNCHANGED <<argc, price_catalogue, sales_record, price_dict,
                   console_report, result_file>>

\* line 93 and the assignment of line 109
LoopReturn ==
    /\ pc = "loop"
    /\ idx = Len(sales_record.data)
    /\ pc' = "report"
    /\ UNCHANGED <<argc, price_catalogue, sales_record, price_dict, idx,
                   total_cost, errors, output, console_report, result_file,
                   exit_status, uncaught>>

\* lines 110-125, then the normal end of the process
Report ==
    /\ pc = "report"
    /\ console_report' = ReportOf(total_cost, errors)
    /\ result_file' = ReportOf(total_cost, errors)
    /\ pc' = "exited"
    /\ exit_status' = 0
    /\ UNCHANGED <<argc, price_catalogue, sales_record, price_dict, idx,
                   total_cost, errors, output, uncaught>>

Next ==
    \/ CheckArgs
    \/ LoadCatalogue
    \/ LoadSales
    \/ CheckLoaded
    \/ ComputeEnter
    \/ LoopStep
    \/ LoopReturn
    \/ Report

Spec == Init /\ [][Next]_vars

\* compute_total_sales called on its own, on every catalogue and sales list
InitCompute ==
    /\ pc = "compute"
    /\ argc = 3
    /\ price_catalogue \in {Loaded(c) : c \in SeqsUpTo(CatalogueEntries, MaxCat)}
    /\ sales_record \in {Loaded(s) : s \in SeqsUpTo(SaleRows, MaxSales)}
    /\ price_dict = EmptyDict
    /\ idx = 0
    /\ total_cost = 0
    /\ errors = <<>>
    /\ output = <<>>
    /\ console_report = NoReport
    /\ result_file = NoReport
    /\ exit_status = 0
    /\ uncaught = NoException

NextCompute ==
    \/ ComputeEnter
    \/ LoopStep
    \/ LoopReturn

SpecCompute == InitCompute /\ [][NextCompute]_vars

\* ============================================================ properties
Cat == price_catalogue.data
Sales == sales_record.data

RemoveAt(s, i) == SubSeq(s, 1, i - 1) \o SubSeq(s, i + 1, Len(s))

HasTitle(cat, product) ==
    product.tag = "str" /\ \E i \in 1..Len(cat) : cat[i].title = product.s

\* index of the last catalogue entry with this title
LastIndexOf(cat, title) ==
    CHOOSE i \in 1..Len(cat) :
        /\ cat[i].title = title
        /\ \A j \in (i + 1)..Len(cat) : cat[j].title # title

\* a record with a catalogue Product and a non-negative number as Quantity
WellFormed(cat, sale) ==
    /\ sale.isdict
    /\ HasTitle(cat, sale.Product)
    /\ sale.Quantity.tag = "num"
    /\ sale.Quantity.n >= 0

RECURSIVE SumPriceTimesQuantity(_, _)
SumPriceTimesQuantity(cat, sales) ==
    IF sales = <<>> THEN 0
    ELSE cat[LastIndexOf(cat, Head(sales).Product.s)].price * Head(sales).Quantity.n
           + SumPriceTimesQuantity(cat, Tail(sales))

\* C1: when every sales record names a catalogue title and has a
\* non-negative numeric Quantity, the function returns the sum of
\* price * quantity over the records and no errors.
C1_TotalIsSumOfPriceTimesQuantity ==
    (pc = "report" /\ \A i \in 1..Len(Sales) : WellFormed(Cat, Sales[i]))
        => /\ total_cost = SumPriceTimesQuantity(Cat, Sales)
           /\ errors = <<>>

C1_Witness ==
    /\ pc = "report"
    /\ Len(Sales) >= 2
    /\ \A i \in 1..Len(Sales) : WellFormed(Cat, Sales[i])
    /\ Sales[1].Product # Sales[2].Product
    /\ total_cost > 0

\* the verdict on one record, by the first check that fails
Verdict(cat, sale) ==
    IF sale.Product = None \/ sale.Quantity = None THEN "missing"
    ELSE IF ~HasTitle(cat, sale.Product) THEN "notfound"
    ELSE IF sale.Quantity.tag \notin {"num", "bool"} \/ sale.Quantity.n < 0 THEN "quantity"
    ELSE "accepted"

RejectedUpTo(cat, rows, i) == {j \in 1..i : Verdict(cat, rows[j]) # "accepted"}

\* position in the error sequence of the message for rejected record i
Rank(cat, rows, i) == Cardinality(RejectedUpTo(cat, rows, i))

UnknownProduct(cat, sale) ==
    sale.isdict /\ sale.Product.tag = "str" /\ ~HasTitle(cat, sale.Product)

\* C2: a record whose Product is not a catalogue title gets an error that
\* names the product, and the total and the other errors are those of the
\* sales sequence without that record.
C2_UnknownProductSkipped ==
    pc = "report" =>
        \A i \in 1..Len(Sales) :
            UnknownProduct(Cat, Sales[i]) =>
                LET k == Rank(Cat, Sales, i)
                    without == compute_total_sales(Cat, RemoveAt(Sales, i))
                IN /\ k \in 1..Len(errors)
                   /\ errors[k].product = Sales[i].Product
                   /\ RemoveAt(errors, k) = without.errors
                   /\ total_cost = without.total

C2_Witness ==
    /\ pc = "report"
    /\ \E i \in 1..Len(Sales) :
          /\ UnknownProduct(Cat, Sales[i])
          /\ Sales[i].Quantity # None
          /\ errors[Rank(Cat, Sales, i)] = ErrNotFound(Sales[i].Product)
    /\ total_cost # 0

\* C3 (as claimed): a record whose Quantity is negative or is not a number
\* (a string, a boolean, ...) gets an error and adds nothing to the total.
C3_BadQuantitySkipped ==
    pc = "report" =>
        \A i \in 1..Len(Sales) :
            (Sales[i].isdict /\ (Sales[i].Quantity.tag # "num" \/ Sales[i].Quantity.n < 0)) =>
                LET without == compute_total_sales(Cat, RemoveAt(Sales, i))
                IN /\ Len(errors) = Len(without.errors) + 1
                   /\ total_cost = without.total

\* C6 (as claimed): the function never raises, and it returns only after
\* the last sales record.
C6_NeverRaisesOnAnyRow ==
    /\ uncaught = NoException
    /\ pc = "report" => idx = Len(Sales)

\* the catalogue with every entry dropped that a later entry of the same
\* title shadows
RECURSIVE KeepLast(_)
KeepLast(cat) ==
    IF cat = <<>> THEN <<>>
    ELSE IF \E j \in 2..Len(cat) : cat[j].title = Head(cat).title
         THEN KeepLast(Tail(cat))
         ELSE <<Head(cat)>> \o KeepLast(Tail(cat))

HasShadowedEntry(cat) ==
    \E i, j \in 1..Len(cat) :
        i < j /\ cat[i].title = cat[j].title /\ cat[i].price # cat[j].price

\* C7: the price used for a title is that of the last catalogue entry with
\* the title, and the earlier entries with it do not change the total.
C7_LastEntryWins ==
    /\ pc \in {"loop", "report"} =>
          \A i \in 1..Len(Cat) :
              /\ Cat[i].title \in DOMAIN price_dict
              /\ price_dict[Cat[i].title] = Cat[LastIndexOf(Cat, Cat[i].title)].price
    /\ pc = "report" => total_cost = compute_total_sales(KeepLast(Cat), Sales).total

C7_Witness ==
    /\ pc = "report"
    /\ HasShadowedEntry(Cat)
    /\ \E i \in 1..Len(Sales) :
          /\ Verdict(Cat, Sales[i]) = "accepted"
          /\ \E a, b \in 1..Len(Cat) :
                a < b /\ Cat[a].title = Sales[i].Product.s
                      /\ Cat[b].title = Sales[i].Product.s
                      /\ Cat[a].price # Cat[b].price
    /\ total_cost # 0

\* C9 (as claimed): the running total is never negative.
C9_TotalNeverNegative == total_cost >= 0

\* C9 (amended): with no negative price in the catalogue, the running
\* total is never negative.
C9_TotalNonNegativeWhenPricesAre ==
    (\A i \in 1..Len(Cat) : Cat[i].price >= 0) => total_cost >= 0

C9_Witness ==
    /\ pc = "report"
    /\ \A i \in 1..Len(Cat) : Cat[i].price >= 0
    /\ \E i \in 1..Len(Sales) :
          Sales[i].Quantity.n < 0 /\ HasTitle(Cat, Sales[i].Product)
    /\ total_cost > 0

MessageFor(verdict, sale) ==
    CASE verdict = "missing" -> ErrInvalidRecord(sale)
      [] verdict = "notfound" -> ErrNotFound(sale.Product)
      [] OTHER -> ErrQuantity(sale.Quantity, sale.Product)

\* C10: the errors hold one message per rejected record among those
\* processed and none for an accepted one, in input order, and the message
\* is that of the first failing check: missing field, then unknown
\* product, then invalid quantity.
C10_OneErrorPerRejectedRecordInOrder ==
    pc \in {"loop", "report"} =>
        /\ Len(errors) = Rank(Cat, Sales, idx)
        /\ \A j \in RejectedUpTo(Cat, Sales, idx) :
              errors[Rank(Cat, Sales, j)] = MessageFor(Verdict(Cat, Sales[j]), Sales[j])

C10_Witness ==
    /\ pc = "report"
    /\ Len(Sales) = 2
    /\ Sales[1] = Sale(Str("C"), Num(-1))
    /\ Sales[2] = Sale(Str("A"), Num(-1))
    /\ HasTitle(Cat, Str("A"))
    /\ errors = <<ErrNotFound(Str("C")), ErrQuantity(Num(-1), Str("A"))>>

\* C4 (as claimed): the process ends with status 1 exactly when the
\* argument count is wrong or a loader gave None; otherwise the report is
\* written to the console and the results file and the status is 0.
C4_ExitOneOnlyOnArgsOrNone ==
    pc = "exited" =>
        IF argc # 3 \/ price_catalogue.isnone \/ sales_record.isnone
        THEN exit_status = 1
        ELSE /\ exit_status = 0
             /\ console_report = ReportOf(total_cost, errors)
             /\ result_file = ReportOf(total_cost, errors)

\* C5 (as claimed): a loaded catalogue and an empty sales sequence end in
\* a report of total 0.0 and no errors.
C5_EmptySalesReportsZero ==
    (pc = "exited" /\ ~price_catalogue.isnone /\ ~sales_record.isnone
        /\ sales_record.data = <<>>)
        => /\ result_file = ReportOf(0, <<>>)
           /\ console_report = ReportOf(0, <<>>)

LoaderExceptions == {RaisedBy(k) : k \in FileKinds} \ {NoException}

\* C8 (as claimed): no exception of opening, reading, decoding or parsing
\* the file leaves load_json_file.
C8_LoaderNeverPropagates == uncaught \notin LoaderExceptions

====
